---- MODULE Spec2Model ----
(***************************************************************************)
(* A model of utils/Path.ts: the normalized absolute path value, its path  *)
(* algebra (parent, join, relative), and the operations it performs on the *)
(* filesystem (readlink, exists, mv, cp, rm, mkdir, mktemp, ln, write,     *)
(* touch, chmod, ls, walk).                                                *)
(*                                                                         *)
(* A JavaScript string is a sequence of one-character strings, so that     *)
(* normalisation, splitting and prefix tests are computed, not assumed.    *)
(***************************************************************************)
EXTENDS Naturals, Sequences, FiniteSets

\* ------------------------------------------------------------------------
\* Bounds of the model
\* ------------------------------------------------------------------------

\* longest string handed to the constructor, and longest Path string kept
MaxLen == 4
\* longest single component handed to join
MaxSegLen == 2
\* most components handed to one join call
MaxSegs == 2

\* the characters strings are made of: the separator, the dot, a letter
Char == {"/", ".", "a"}

RECURSIVE StrUpTo(_)
StrUpTo(n) ==
  IF n = 0 THEN {<<>>}
  ELSE LET shorter == StrUpTo(n - 1)
       IN  shorter \cup {Append(s, c) : s \in shorter, c \in Char}

\* ------------------------------------------------------------------------
\* JavaScript string and array primitives used by Path.ts
\* ------------------------------------------------------------------------

\* String.prototype.startsWith
StartsWith(s, pre) ==
  /\ Len(pre) <= Len(s)
  /\ SubSeq(s, 1, Len(pre)) = pre

\* index of the first separator of s, 0 when there is none
FirstSlash(s) ==
  IF \E i \in 1..Len(s) : s[i] = "/"
  THEN CHOOSE i \in 1..Len(s) : s[i] = "/" /\ \A j \in 1..(i - 1) : s[j] # "/"
  ELSE 0

\* String.prototype.split("/")
RECURSIVE SplitSlash(_)
SplitSlash(s) ==
  LET i == FirstSlash(s)
  IN  IF i = 0 THEN <<s>>
      ELSE <<SubSeq(s, 1, i - 1)>> \o SplitSlash(SubSeq(s, i + 1, Len(s)))

\* Array.prototype.join("/")
RECURSIVE JoinSlash(_)
JoinSlash(parts) ==
  IF parts = <<>> THEN <<>>
  ELSE IF Len(parts) = 1 THEN parts[1]
  ELSE parts[1] \o <<"/">> \o JoinSlash(Tail(parts))

\* Array.prototype.filter(x => x): the empty string is the only falsy string
Truthy(parts) == SelectSeq(parts, LAMBDA x : x # <<>>)

\* ------------------------------------------------------------------------
\* node:path (posix) as Path.ts calls it
\* ------------------------------------------------------------------------

\* normalizeString(path, allowAboveRoot = false): "" and "." segments are
\* dropped, ".." removes the segment before it (and is dropped at the root)
RECURSIVE NormalizeSegs(_, _)
NormalizeSegs(segs, res) ==
  IF segs = <<>> THEN res
  ELSE LET s == Head(segs)
       IN  IF s = <<>> \/ s = <<".">> THEN NormalizeSegs(Tail(segs), res)
           ELSE IF s = <<".", ".">>
           THEN NormalizeSegs(Tail(segs),
                              IF res = <<>> THEN res
                              ELSE SubSeq(res, 1, Len(res) - 1))
           ELSE NormalizeSegs(Tail(segs), Append(res, s))

\* node_path.normalize on an absolute path: a trailing separator is kept
normalize(input) ==
  LET trailingSeparator == input[Len(input)] = "/"
      path == JoinSlash(NormalizeSegs(SplitSlash(input), <<>>))
  IN  IF path = <<>> THEN <<"/">>
      ELSE IF trailingSeparator THEN <<"/">> \o path \o <<"/">>
      ELSE <<"/">> \o path

\* the string without its trailing separators
RECURSIVE StripTrailing(_)
StripTrailing(s) ==
  IF s # <<>> /\ s[Len(s)] = "/" THEN StripTrailing(SubSeq(s, 1, Len(s) - 1))
  ELSE s

\* index of the last separator of s, 0 when there is none
LastSlash(s) ==
  IF \E i \in 1..Len(s) : s[i] = "/"
  THEN CHOOSE i \in 1..Len(s) : s[i] = "/" /\ \A j \in (i + 1)..Len(s) : s[j] # "/"
  ELSE 0

\* node_path.dirname on an absolute path: the scan from the end skips the
\* trailing separators and the last component and stops at the separator
\* before it; index 0 is never visited, and a cut at index 1 gives "//"
dirname(s) ==
  LET t == StripTrailing(s)
      e == LastSlash(t)
  IN  IF e <= 1 THEN <<"/">>
      ELSE IF e = 2 THEN <<"/", "/">>
      ELSE SubSeq(t, 1, e - 1)

\* node_path.basename
basename(s) ==
  LET t == StripTrailing(s)
  IN  SubSeq(t, LastSlash(t) + 1, Len(t))

\* ------------------------------------------------------------------------
\* Path: constructor, parent, join, components, eq
\* ------------------------------------------------------------------------

\* the constructor throws unless the input is non-empty and starts with "/"
ValidInput(input) == input # <<>> /\ input[1] = "/"

\* new Path(input).string, for a valid input
PathOf(input) == normalize(input)

root == PathOf(<<"/">>)

parent(this) == PathOf(dirname(this))

join(this, components) ==
  LET joined == JoinSlash(Truthy(components))
  IN  IF joined # <<>> /\ joined[1] = "/" THEN PathOf(joined)
      ELSE IF joined # <<>> THEN PathOf(this \o <<"/">> \o joined)
      ELSE this

eq(this, that) == this = that

\* Array.prototype.slice(n)
SliceFrom(arr, n) ==
  IF n >= Len(arr) THEN <<>> ELSE SubSeq(arr, n + 1, Len(arr))

\* Array.prototype.shift: an empty array stays empty
Shift(arr) == IF arr = <<>> THEN <<>> ELSE Tail(arr)

\* arr[0]: undefined on an empty array, a value no component equals
Undefined == <<"undefined">>
First(arr) == IF arr = <<>> THEN Undefined ELSE Head(arr)

\* ['/'].concat(string.split("/").filter(x => x))
RootedComps(s) == <<<<"/">>>> \o Truthy(SplitSlash(s))

\* relative, fast path: this.string.startsWith(base.string)
RelativeFast(this, base) ==
  JoinSlash(SliceFrom(RootedComps(this), Len(RootedComps(base))))

\* relative, after the stripping loop: one ".." per remaining base component,
\* then the remaining components of this
RECURSIVE DotDots(_)
DotDots(n) == IF n = 0 THEN <<>> ELSE <<<<".", ".">>>> \o DotDots(n - 1)

RelativeRest(pathComps, baseComps) ==
  JoinSlash(DotDots(Len(baseComps)) \o pathComps)

\* ------------------------------------------------------------------------
\* The filesystem below node:fs (POSIX): entries keyed by their real path
\* ------------------------------------------------------------------------

FileEntry(content) == [kind |-> "file", data |-> content]
DirEntry == [kind |-> "dir", data |-> <<>>]
LinkEntry(target) == [kind |-> "link", data |-> target]

\* the path of the entry called name in directory d
Child(d, name) == IF d = <<"/">> THEN d \o name ELSE d \o <<"/">> \o name

\* p lies strictly below directory d
Under(d, p) == p # d /\ StartsWith(p, Child(d, <<>>))

\* symbolic links the kernel follows in one resolution; one more is ELOOP
MaxSymlinks == 40

\* the string p ends in a separator that is not the root's
TrailingSlash(p) == Len(p) > 1 /\ p[Len(p)] = "/"

\* the components of a path or of the text of a link as the kernel walks
\* them: the names, and an empty component at the end for a trailing
\* separator, which asks for a directory there
PathComps(p) ==
  Truthy(SplitSlash(p)) \o (IF TrailingSlash(p) THEN <<<<>>>> ELSE <<>>)

\* path resolution: walk the components from the directory cur, following
\* symbolic links in every component but (unless follow) the last one; the
\* text of a link is walked with its trailing separator. With create (an
\* open(2) that may make the file) a last name with a separator behind it is
\* refused before it is looked up.
\* Result: err ("" for none), the real path reached, and whether an entry is
\* present there (only the last component may be absent without an error).
\* the case the walk is in before its next component: at the "end" of the
\* components; in something that is no directory ("notdir"); before a
\* component that stays in the directory ("same": a dot, or the empty one a
\* trailing separator leaves) or goes up ("up"); before a last name that a
\* creating open refuses ("refused"); before a name that is "absent", a
\* "link" to follow (a "loop" when no more may be followed), or any other
\* "entry"
WalkCase(f, cur, comps, follow, create, fuel) ==
  IF comps = <<>> THEN "end"
  ELSE IF f[cur].kind # "dir" THEN "notdir"
  ELSE IF Head(comps) = <<".">> \/ Head(comps) = <<>> THEN "same"
  ELSE IF Head(comps) = <<".", ".">> THEN "up"
  ELSE IF create /\ Tail(comps) # <<>> /\ Truthy(Tail(comps)) = <<>> THEN "refused"
  ELSE IF Child(cur, Head(comps)) \notin DOMAIN f THEN "absent"
  ELSE IF /\ f[Child(cur, Head(comps))].kind = "link"
          /\ (Tail(comps) # <<>> \/ follow)
  THEN IF fuel = 0 THEN "loop" ELSE "link"
  ELSE "entry"

\* the text of a link is walked from the root when it starts with a
\* separator and from the directory the link is in otherwise
RECURSIVE Walk(_, _, _, _, _, _)
Walk(f, cur, comps, follow, create, fuel) ==
  LET case == WalkCase(f, cur, comps, follow, create, fuel)
  IN  CASE case = "end" -> [err |-> "", path |-> cur, present |-> TRUE]
        [] case = "notdir" -> [err |-> "ENOTDIR", path |-> cur, present |-> FALSE]
        [] case = "same" -> Walk(f, cur, Tail(comps), follow, create, fuel)
        [] case = "up" ->
             Walk(f, normalize(dirname(cur)), Tail(comps), follow, create, fuel)
        [] case = "refused" ->
             [err |-> "EISDIR", path |-> Child(cur, Head(comps)), present |-> FALSE]
        [] case = "absent" ->
             [err |-> IF Tail(comps) = <<>> THEN "" ELSE "ENOENT",
              path |-> Child(cur, Head(comps)), present |-> FALSE]
        [] case = "loop" ->
             [err |-> "ELOOP", path |-> Child(cur, Head(comps)), present |-> FALSE]
        [] case = "link" ->
             Walk(f, IF f[Child(cur, Head(comps))].data[1] = "/"
                                           THEN <<"/">> ELSE cur,
                  PathComps(f[Child(cur, Head(comps))].data) \o Tail(comps),
                  follow, create, fuel - 1)
        [] case = "entry" ->
             Walk(f, Child(cur, Head(comps)), Tail(comps), follow, create, fuel)

\* behind a trailing separator the entry a path names, when it is there,
\* has to be a directory
MustBeDir(f, r) ==
  IF r.err = "" /\ r.present /\ f[r.path].kind # "dir"
  THEN [err |-> "ENOTDIR", path |-> r.path, present |-> FALSE]
  ELSE r

\* the entry the string p names, for the calls that make, remove or rename
\* an entry: a link at the last component is never followed, whatever is
\* behind it
Lookup(f, p) ==
  Walk(f, <<"/">>, Truthy(SplitSlash(p)), FALSE, FALSE, MaxSymlinks)

\* resolution of the string p, for the calls that look an entry up; behind a
\* trailing separator the last component is resolved like one in the
\* middle: a link there is followed, and what is found has to be a directory
Resolve(f, p, follow) ==
  Walk(f, <<"/">>, PathComps(p), follow, FALSE, MaxSymlinks)

\* the error of a lookup that needs its entry to be present
LookupErr(r) == IF r.err # "" THEN r.err ELSE IF r.present THEN "" ELSE "ENOENT"

\* node_fs.statSync / lstatSync: does it return, and what kind it reports
StatOk(f, p) == LookupErr(Resolve(f, p, TRUE)) = ""
StatKind(f, p) == f[Resolve(f, p, TRUE).path].kind
LstatOk(f, p) == LookupErr(Resolve(f, p, FALSE)) = ""
LstatKind(f, p) == f[Resolve(f, p, FALSE).path].kind

\* what lstat finds at p: the kind of the entry, "none" when it fails
KindAt(f, p) == IF LstatOk(f, p) THEN LstatKind(f, p) ELSE "none"

\* the content a read of p returns (p names a file, through links)
ReadFile(f, p) == f[Resolve(f, p, TRUE).path].data

\* the entries of f outside the subtree rooted at the real path q
Without(f, q) ==
  [k \in {k \in DOMAIN f : k # q /\ ~Under(q, k)} |-> f[k]]

\* f with one more entry
With(f, q, e) == [k \in DOMAIN f \cup {q} |-> IF k = q THEN e ELSE f[k]]

FsResult(err, f, value) == [err |-> err, fs |-> f, value |-> value]

\* node_fs.readlinkSync, on what resolving the path found
readlinkAt(f, r) ==
  IF LookupErr(r) # "" THEN FsResult(LookupErr(r), f, <<>>)
  ELSE IF f[r.path].kind # "link" THEN FsResult("EINVAL", f, <<>>)
  ELSE FsResult("", f, f[r.path].data)

readlinkSync(f, p) == readlinkAt(f, Resolve(f, p, FALSE))

\* node_fs.unlinkSync, on what resolving the path found
unlinkAt(f, r) ==
  IF LookupErr(r) # "" THEN FsResult(LookupErr(r), f, <<>>)
  ELSE IF f[r.path].kind = "dir" THEN FsResult("EISDIR", f, <<>>)
  ELSE FsResult("", Without(f, r.path), <<>>)

\* behind a trailing separator unlink(2) finds a directory (EISDIR), nothing
\* (ENOENT), or an entry that is no directory (ENOTDIR)
unlinkSync(f, p) ==
  unlinkAt(f, IF TrailingSlash(p) THEN MustBeDir(f, Lookup(f, p))
              ELSE Lookup(f, p))

\* the subtree at real path from, re-keyed to sit at real path to
Rekey(k, from, to) == to \o SubSeq(k, Len(from) + 1, Len(k))

Moved(f, from, to) ==
  [k \in {k \in DOMAIN f : k # from /\ ~Under(from, k) /\ k # to /\ ~Under(to, k)}
         \cup {Rekey(o, from, to) : o \in {o \in DOMAIN f : o = from \/ Under(from, o)}}
   |-> IF \E o \in DOMAIN f : (o = from \/ Under(from, o)) /\ Rekey(o, from, to) = k
       THEN f[CHOOSE o \in DOMAIN f :
                (o = from \/ Under(from, o)) /\ Rekey(o, from, to) = k]
       ELSE f[k]]

\* node_fs.renameSync (rename(2)), on what resolving the two paths found and
\* on whether one of them ends in a separator (slash: the old entry then has
\* to be a directory), in the order rename(2) makes its checks: the
\* directories of the two paths are looked up, the root is refused, the old
\* entry has to be there, neither entry may be above the other, and then
\* the kinds have to fit
renameAt(f, ro, rn, slash) ==
  IF ro.err # "" THEN FsResult(ro.err, f, <<>>)
  ELSE IF rn.err # "" THEN FsResult(rn.err, f, <<>>)
  ELSE IF ro.path = <<"/">> \/ rn.path = <<"/">> THEN FsResult("EBUSY", f, <<>>)
  ELSE IF ~ro.present THEN FsResult("ENOENT", f, <<>>)
  ELSE IF slash /\ f[ro.path].kind # "dir" THEN FsResult("ENOTDIR", f, <<>>)
  ELSE IF Under(ro.path, rn.path) THEN FsResult("EINVAL", f, <<>>)
  ELSE IF Under(rn.path, ro.path) THEN FsResult("ENOTEMPTY", f, <<>>)
  ELSE IF ro.path = rn.path THEN FsResult("", f, <<>>)
  ELSE IF f[ro.path].kind = "dir"
  THEN IF rn.present /\ f[rn.path].kind # "dir" THEN FsResult("ENOTDIR", f, <<>>)
       ELSE IF rn.present /\ \E k \in DOMAIN f : Under(rn.path, k)
       THEN FsResult("ENOTEMPTY", f, <<>>)
       ELSE FsResult("", Moved(f, ro.path, rn.path), <<>>)
  ELSE IF rn.present /\ f[rn.path].kind = "dir" THEN FsResult("EISDIR", f, <<>>)
  ELSE FsResult("", Moved(f, ro.path, rn.path), <<>>)

renameSync(f, old, new) ==
  renameAt(f, Lookup(f, old), Lookup(f, new),
           TrailingSlash(old) \/ TrailingSlash(new))

\* rmdir(2), on what resolving the path found
rmdirAt(f, r) ==
  IF r.err # "" THEN FsResult(r.err, f, <<>>)
  ELSE IF r.path = <<"/">> THEN FsResult("EBUSY", f, <<>>)
  ELSE IF ~r.present THEN FsResult("ENOENT", f, <<>>)
  ELSE IF f[r.path].kind # "dir" THEN FsResult("ENOTDIR", f, <<>>)
  ELSE IF \E k \in DOMAIN f : Under(r.path, k) THEN FsResult("ENOTEMPTY", f, <<>>)
  ELSE FsResult("", Without(f, r.path), <<>>)

rmdirSync(f, p) == rmdirAt(f, Lookup(f, p))

\* node_fs.readdirSync, on what resolving the path (links followed) found: the names in the
\* directory, in no order the removal may rely on
readdirAt(f, r) ==
  IF LookupErr(r) # "" THEN FsResult(LookupErr(r), f, {})
  ELSE IF f[r.path].kind # "dir" THEN FsResult("ENOTDIR", f, {})
  ELSE FsResult("", f, {basename(k) : k \in {k \in DOMAIN f :
                          k # r.path /\ normalize(dirname(k)) = r.path}})

\* the recursive removal takes a missing entry (ENOENT) for a removed one
Gone(r) == IF r.err = "ENOENT" THEN FsResult("", r.fs, <<>>) ELSE r

RECURSIVE rimrafSync(_, _)
RECURSIVE RmChildren(_, _, _)

\* after each outcome in rs of removing one entry of p: its error, or the
\* removal of the entries that are left
RmRest(rs, p, names) ==
  UNION {IF r.err # "" THEN {r} ELSE RmChildren(r.fs, p, names) : r \in rs}

\* the entries of p called names are removed one after the other, each by the
\* path string join(p, name), and then rmdirSync(p) is called again
RmChildren(f, p, names) ==
  IF names = {} THEN {Gone(rmdirSync(f, p))}
  ELSE UNION {RmRest(rimrafSync(f, normalize(p \o <<"/">> \o n)), p, names \ {n}) : n \in names}

\* a directory that rmdirSync found not empty (d) is read and emptied
RmEntries(f, p, d) ==
  IF d.err # "" THEN {Gone(d)} ELSE RmChildren(f, p, d.value)

\* a directory is removed by rmdirSync; d is what that first call returned
RmDir(f, p, d) ==
  IF d.err = "ENOTEMPTY" THEN RmEntries(f, p, readdirAt(f, Resolve(f, p, TRUE))) ELSE {Gone(d)}

\* the recursive removal, on what lstat found at the path: nothing (ENOENT)
\* ends it, a directory goes to rmdirSync, and anything else to unlinkSync,
\* a path whose lstat failed otherwise included: the error is unlinkSync's
RimrafAt(f, p, r) ==
  IF LookupErr(r) = "ENOENT" THEN {FsResult("", f, <<>>)}
  ELSE IF LookupErr(r) = "" /\ f[r.path].kind = "dir"
  THEN RmDir(f, p, rmdirSync(f, p))
  ELSE {Gone(unlinkSync(f, p))}

rimrafSync(f, p) == RimrafAt(f, p, Resolve(f, p, FALSE))

\* node_fs.rmSync(path, {recursive}), force not set, on what lstat found at
\* the path: the set of outcomes, one for each order of removal
RmChecked(f, p, r, recursive) ==
  IF LookupErr(r) # "" THEN {FsResult(LookupErr(r), f, <<>>)}
  ELSE IF f[r.path].kind = "dir" /\ ~recursive THEN {FsResult("ERR_FS_EISDIR", f, <<>>)}
  ELSE rimrafSync(f, p)

rmSync(f, p, recursive) == RmChecked(f, p, Resolve(f, p, FALSE), recursive)

\* mkdir(2), on what resolving the path found
mkdirAt(f, r) ==
  IF r.err # "" THEN FsResult(r.err, f, <<>>)
  ELSE IF r.present THEN FsResult("EEXIST", f, <<>>)
  ELSE FsResult("", With(f, r.path, DirEntry), <<>>)

mkdirOne(f, p) == mkdirAt(f, Lookup(f, p))

\* node_fs.mkdirSync(path, {recursive: true}): mkdir(2) is tried on the path;
\* on ENOENT the directory above is made first and the path tried again; on
\* ENOTDIR the call fails; on any other error the path is stat'ed: a
\* directory there is no error, a failing stat gives its own error, and
\* anything else is EEXIST (ENOTDIR for a path that was made on the way to
\* another, pending)
MkdirStat(f, s, r, pending) ==
  IF LookupErr(s) # "" THEN FsResult(LookupErr(s), f, <<>>)
  ELSE IF f[s.path].kind = "dir" THEN FsResult("", f, <<>>)
  ELSE FsResult(IF r.err = "EEXIST" /\ pending THEN "ENOTDIR" ELSE "EEXIST",
                f, <<>>)

RECURSIVE mkdirPath(_, _, _)
MkdirAfter(up, p, pending) ==
  IF up.err # "" THEN up ELSE mkdirPath(up.fs, p, pending)

MkdirRetry(f, p, r, pending) ==
  IF r.err = "" \/ r.err = "ENOTDIR" THEN r
  ELSE IF r.err = "ENOENT" /\ p # <<"/">>
  THEN MkdirAfter(mkdirPath(f, normalize(dirname(p)), TRUE), p, pending)
  ELSE MkdirStat(f, Resolve(f, p, TRUE), r, pending)

mkdirPath(f, p, pending) == MkdirRetry(f, p, mkdirOne(f, p), pending)

mkdirRecursive(f, p) == mkdirPath(f, p, FALSE)

mkdirSync(f, p, recursive) ==
  IF recursive THEN mkdirRecursive(f, p) ELSE mkdirOne(f, p)

\* symlink(2), on what resolving the new path found: the text of the target
\* is stored as it is given
symlinkAt(f, r, slash, target) ==
  IF r.err # "" THEN FsResult(r.err, f, <<>>)
  ELSE IF r.present THEN FsResult("EEXIST", f, <<>>)
  ELSE IF slash THEN FsResult("ENOENT", f, <<>>)
  ELSE FsResult("", With(f, r.path, LinkEntry(target)), <<>>)

\* node_fs.symlinkSync(target, path)
symlinkSync(f, target, p) ==
  symlinkAt(f, Lookup(f, p), TrailingSlash(p), target)

\* the entry the string p names to an open(2) that may make the file: links
\* are followed
Follow(f, p) == Walk(f, <<"/">>, PathComps(p), TRUE, TRUE, MaxSymlinks)

\* open(2) for writing with O_CREAT, on what following the path found: the
\* error, "" when the file is opened (made when it was not there, also at
\* the far end of a link that points at nothing)
OpenErr(f, r) ==
  IF r.err # "" THEN r.err
  ELSE IF r.present /\ f[r.path].kind = "dir" THEN "EISDIR"
  ELSE ""

\* node_fs.writeFileSync(path, text): flag 'w', the file is made or emptied
\* and the text written
writeFileAt(f, r, text) ==
  IF OpenErr(f, r) # "" THEN FsResult(OpenErr(f, r), f, <<>>)
  ELSE FsResult("", With(f, r.path, FileEntry(text)), <<>>)

writeFileSync(f, p, text) ==
  writeFileAt(f, Follow(f, p), text)

\* node_fs.copyFileSync, when copying fails after the destination was
\* opened: the file opened is left empty and the destination path unlinked
CopyUndo(f, rd, dst) == unlinkSync(With(f, rd.path, FileEntry(<<>>)), dst).fs

\* node_fs.copyFileSync(src, dst), on what following the two paths found: the
\* source is opened for reading, the destination for writing (and made);
\* when the two are one file nothing is done; reading a directory fails
copyFileAt(f, rs, rd, dst) ==
  IF LookupErr(rs) # "" THEN FsResult(LookupErr(rs), f, <<>>)
  ELSE IF OpenErr(f, rd) # "" THEN FsResult(OpenErr(f, rd), f, <<>>)
  ELSE IF rs.path = rd.path THEN FsResult("", f, <<>>)
  ELSE IF f[rs.path].kind = "dir" THEN FsResult("EISDIR", CopyUndo(f, rd, dst), <<>>)
  ELSE FsResult("", With(f, rd.path, FileEntry(f[rs.path].data)), <<>>)

copyFileSync(f, src, dst) ==
  copyFileAt(f, Resolve(f, src, TRUE), Follow(f, dst), dst)

\* node_fs.chmodSync(path, mode): links are followed; the mode bits are no
\* part of an entry here, so a call that succeeds leaves the entries alone
chmodAt(f, r) == FsResult(LookupErr(r), f, <<>>)

chmodSync(f, p) == chmodAt(f, Resolve(f, p, TRUE))

\* the working directory relative paths are resolved against
ProcessCwd == <<"/">>

\* the real path a string handed to the OS names before resolution
OsPath(s) ==
  IF s # <<>> /\ s[1] = "/" THEN s ELSE Child(ProcessCwd, s)

\* node_fs.mkdtempSync(prefix): a directory named prefix plus a suffix the OS
\* draws, and draws again ("retry") while the name is taken; value is the
\* name it returns, prefix plus that suffix
MkdtempAt(r, name) ==
  FsResult(IF r.err = "EEXIST" THEN "retry" ELSE r.err, r.fs, name)

mkdtempSync(f, prefix, suffix) ==
  MkdtempAt(mkdirOne(f, OsPath(prefix \o suffix)), prefix \o suffix)

\* ------------------------------------------------------------------------
\* Path: operations on the filesystem
\* ------------------------------------------------------------------------

exists(f, this) == StatOk(f, this)

IsDirAt(f, r) == LookupErr(r) = "" /\ f[r.path].kind = "dir"

isDirectory(f, this) == IsDirAt(f, Resolve(f, this, TRUE))

\* readlink() after readlinkSync returned or threw r; typeError tells
\* whether the error node:fs threw is a TypeError
ReadlinkReturn(f, this, typeError, r) ==
  IF r.err = "" THEN FsResult("", f, join(parent(this), <<r.value>>))
  ELSE IF typeError /\ r.err = "EINVAL" THEN FsResult("", f, this)
  ELSE FsResult(r.err, f, <<>>)

readlink(f, this, typeError) ==
  ReadlinkReturn(f, this, typeError, readlinkSync(f, this))

\* the destination mv renames to, in its two call shapes
MvDst(this, shape, arg) ==
  IF shape = "to" THEN arg ELSE join(arg, <<basename(this)>>)

\* mv: return dst, or throw what renameSync threw
MvReturn(dst, rn) == FsResult(rn.err, rn.fs, IF rn.err = "" THEN dst ELSE <<>>)

\* a mv that hands renameSync its two paths the wrong way round
MvRenameSwapped(f, this, dst, un) ==
  IF un.err # "" THEN FsResult(un.err, f, <<>>)
  ELSE MvReturn(dst, renameSync(un.fs, dst, this))

\* mv: renameSync(this.string, dst.string) unless unlinkSync threw
MvRename(f, this, dst, un) ==
  IF un.err # "" THEN FsResult(un.err, f, <<>>)
  ELSE MvReturn(dst, renameSync(un.fs, this, dst))

\* mv: if (dst.exists() && force) unlinkSync(dst.string)
MvUnlink(f, dst, force) ==
  IF exists(f, dst) /\ force THEN unlinkSync(f, dst)
  ELSE FsResult("", f, <<>>)

MvOnto(f, this, dst, force) == MvRename(f, this, dst, MvUnlink(f, dst, force))

mv(f, this, shape, arg, force) ==
  MvOnto(f, this, MvDst(this, shape, arg), force)

\* an rm that does not look whether the path exists
rmUnguarded(f, this, recursive) == rmSync(f, this, recursive)

rm(f, this, recursive) ==
  IF exists(f, this) THEN rmSync(f, this, recursive)
  ELSE {FsResult("", f, <<>>)}

\* cp: return dst, or throw what copyFileSync threw
CpReturn(dst, r) == FsResult(r.err, r.fs, IF r.err = "" THEN dst ELSE <<>>)

cp(f, this, into) ==
  CpReturn(join(into, <<basename(this)>>),
           copyFileSync(f, this, join(into, <<basename(this)>>)))

\* ln: return to, or throw what symlinkSync threw
LnReturn(to, r) == FsResult(r.err, r.fs, IF r.err = "" THEN to ELSE <<>>)

ln(f, this, to) == LnReturn(to, symlinkSync(f, this, to))

\* write: return this, or throw what writeFileSync threw
WriteReturn(this, r) == FsResult(r.err, r.fs, IF r.err = "" THEN this ELSE <<>>)

\* write: writeFileSync(this.string, text) unless this.rm() threw
WriteAfter(this, removed, text) ==
  IF removed.err # "" THEN FsResult(removed.err, removed.fs, <<>>)
  ELSE WriteReturn(this, writeFileSync(removed.fs, this, text))

\* write: a path that exists is refused without force and removed with it
write(f, this, text, force) ==
  IF exists(f, this)
  THEN IF ~force THEN {FsResult("file-exists", f, <<>>)}
       ELSE {WriteAfter(this, removed, text) : removed \in rm(f, this, FALSE)}
  ELSE {WriteReturn(this, writeFileSync(f, this, text))}

touch(f, this) == write(f, this, <<>>, TRUE)

\* chmod: return this, or throw what chmodSync threw
ChmodReturn(this, r) == FsResult(r.err, r.fs, IF r.err = "" THEN this ELSE <<>>)

chmod(f, this) == ChmodReturn(this, chmodSync(f, this))

\* mkdir: return this, or throw what mkdirSync threw
MkdirReturn(this, r) == FsResult(r.err, r.fs, IF r.err = "" THEN this ELSE <<>>)

mkdir(f, this, opts) ==
  IF ~isDirectory(f, this)
  THEN MkdirReturn(this, mkdirSync(f, this, opts = "p"))
  ELSE FsResult("", f, this)

\* what undefined turns into in  '' + prefix
UndefinedText == <<"u", "n", "d", "e", "f", "i", "n", "e", "d">>
NoPath == <<"no dir">>
NoPrefix == <<"no prefix">>

\* mktemp: dir?.mkdir('p').string ?? ('' + prefix)
MktempInput(prefix, dir) ==
  IF dir # NoPath THEN dir
  ELSE IF prefix = NoPrefix THEN UndefinedText ELSE prefix

\* mktemp: return new Path(rv)
MktempReturn(rv) ==
  IF rv.err # "" THEN rv
  ELSE IF ~ValidInput(rv.value) THEN FsResult("invalid absolute path", rv.fs, <<>>)
  ELSE FsResult("", rv.fs, PathOf(rv.value))

\* mktemp: mkdtempSync(input) unless mkdir threw
MktempMake(made, input, suffix) ==
  IF made.err # "" THEN made
  ELSE MktempReturn(mkdtempSync(made.fs, input, suffix))

mktemp(f, prefix, dir, suffix) ==
  MktempMake(IF dir = NoPath THEN FsResult("", f, <<>>) ELSE mkdir(f, dir, "p"),
             MktempInput(prefix, dir), suffix)

\* ------------------------------------------------------------------------
\* State
\* ------------------------------------------------------------------------

VARIABLES
  self,          \* the Path value the caller holds (its .string)
  last,          \* the last call: its name, receiver, arguments and outcome
  pc,            \* where relative() stands: "idle" or in its "loop"
  newPathComps,  \* relative(): the local of that name
  newBaseComps,  \* relative(): the local of that name
  fs,            \* the filesystem: real path -> entry
  ret,           \* the filesystem call that last returned, "idle" once consumed
  iter,          \* the iteration under way: "walk" or "ls"
  wstart,        \* walk(): the receiver, the directory the walk starts at
  stack,         \* walk(): the local of that name
  wdir,          \* walk(): the directory popped last (the local dir)
  handle,        \* walk(): the names the open directory has yet to return
  yielded,       \* walk(): the entries yielded so far, in order
  wpc,           \* walk(): "pop", "open", "read", "yielded", "done",
                 \* "failed", "returned" or "dropped"
  open           \* the directories a handle is open on

pathVars == <<self, last, pc, newPathComps, newBaseComps>>
fsVars == <<fs, ret>>
walkVars == <<iter, wstart, stack, wdir, handle, yielded, wpc, open>>
vars == <<self, last, pc, newPathComps, newBaseComps, fs, ret,
          iter, wstart, stack, wdir, handle, yielded, wpc, open>>

Call(op, this, segs, base, result, ok) ==
  [op |-> op, this |-> this, segs |-> segs, base |-> base,
   result |-> result, ok |-> ok]

Inputs == StrUpTo(MaxLen)
Segments == StrUpTo(MaxSegLen)

RECURSIVE SegLists(_)
SegLists(n) ==
  IF n = 0 THEN {<<>>}
  ELSE LET shorter == SegLists(n - 1)
       IN  shorter \cup {Append(l, s) : l \in shorter, s \in Segments}

\* a filesystem holding the root directory alone
EmptyFs == [k \in {root} |-> DirEntry]

Returned(op, this, shape, arg, flag, r, pre, again, firstKind, firstErr) ==
  [op |-> op, this |-> this, shape |-> shape, arg |-> arg, flag |-> flag,
   err |-> r.err, value |-> r.value, pre |-> pre,
   again |-> again, firstKind |-> firstKind, firstErr |-> firstErr]

Idle ==
  Returned("idle", root, "", root, FALSE, FsResult("", EmptyFs, <<>>), EmptyFs,
           FALSE, "", "")

PathStart ==
  /\ self = root
  /\ last = Call("root", root, <<>>, root, root, TRUE)
  /\ pc = "idle"
  /\ newPathComps = <<>>
  /\ newBaseComps = <<>>

\* no walk under way
NoWalk ==
  /\ iter = "walk"
  /\ wstart = root
  /\ stack = <<>>
  /\ wdir = root
  /\ handle = {}
  /\ yielded = <<>>
  /\ wpc = "done"
  /\ open = {}

PathInit ==
  /\ PathStart
  /\ fs = EmptyFs
  /\ ret = Idle
  /\ NoWalk

\* new Path(input) / Path.abs(input)
Construct ==
  /\ pc = "idle"
  /\ \E input \in Inputs :
       IF ValidInput(input)
       THEN /\ self' = PathOf(input)
            /\ last' = Call("construct", input, <<>>, root, PathOf(input), TRUE)
       ELSE /\ self' = self
            /\ last' = Call("construct", input, <<>>, root, <<>>, FALSE)
  /\ UNCHANGED <<pc, newPathComps, newBaseComps>>
  /\ UNCHANGED <<fsVars, walkVars>>

\* self = self.parent()
Parent ==
  /\ pc = "idle"
  /\ self' = parent(self)
  /\ last' = Call("parent", self, <<>>, root, parent(self), TRUE)
  /\ UNCHANGED <<pc, newPathComps, newBaseComps>>
  /\ UNCHANGED <<fsVars, walkVars>>

\* self = self.join(...components)
Join ==
  /\ pc = "idle"
  /\ \E components \in SegLists(MaxSegs) :
       /\ Len(join(self, components)) <= MaxLen
       /\ self' = join(self, components)
       /\ last' = Call("join", self, components, root, join(self, components), TRUE)
  /\ UNCHANGED <<pc, newPathComps, newBaseComps>>
  /\ UNCHANGED <<fsVars, walkVars>>

\* self.relative({to: new Path(input)}) up to the loop
RelativeBegin ==
  /\ pc = "idle"
  /\ \E input \in Inputs :
       /\ ValidInput(input)
       /\ LET base == PathOf(input)
          IN  IF StartsWith(self, base)
              THEN /\ last' = Call("relative", self, <<>>, base,
                                   RelativeFast(self, base), TRUE)
                   /\ UNCHANGED <<pc, newPathComps, newBaseComps>>
              ELSE /\ last' = Call("relative", self, <<>>, base, <<>>, FALSE)
                   /\ pc' = "loop"
                   /\ newPathComps' = RootedComps(self)
                   /\ newBaseComps' = RootedComps(base)
  /\ UNCHANGED <<self, fsVars, walkVars>>

\* one iteration of  while (newPathComps[0] == newBaseComps[0])
RelativeShift ==
  /\ pc = "loop"
  /\ First(newPathComps) = First(newBaseComps)
  /\ newPathComps' = Shift(newPathComps)
  /\ newBaseComps' = Shift(newBaseComps)
  /\ UNCHANGED <<self, last, pc, fsVars, walkVars>>

\* the loop exits and relative returns
RelativeReturn ==
  /\ pc = "loop"
  /\ First(newPathComps) # First(newBaseComps)
  /\ last' = [last EXCEPT !.result = RelativeRest(newPathComps, newBaseComps),
                          !.ok = TRUE]
  /\ pc' = "idle"
  /\ newPathComps' = <<>>
  /\ newBaseComps' = <<>>
  /\ UNCHANGED <<self, fsVars, walkVars>>

\* base.join(target.relative({to: base})) on the relative string just returned
JoinRelative ==
  /\ pc = "idle"
  /\ last.op = "relative"
  /\ last.ok
  /\ last' = Call("rejoin", last.this, <<last.result>>, last.base,
                  join(last.base, <<last.result>>), TRUE)
  /\ UNCHANGED <<self, pc, newPathComps, newBaseComps>>
  /\ UNCHANGED <<fsVars, walkVars>>

PathNext ==
  \/ Construct
  \/ Parent
  \/ Join
  \/ RelativeBegin
  \/ RelativeShift
  \/ RelativeReturn
  \/ JoinRelative

SpecPath == PathInit /\ [][PathNext]_vars

\* ------------------------------------------------------------------------
\* The filesystem operations as a state machine
\* ------------------------------------------------------------------------

\* how deep below the root the paths of the calls go
MaxDepth == 2

\* the path /a/a.../a of n names
RECURSIVE Nested(_)
Nested(n) == IF n = 0 THEN <<>> ELSE Nested(n - 1) \o <<"/", "a">>

PB == <<"/", "b">>
PBA == <<"/", "b", "/", "a">>

\* the paths the calls are made on: /a and the paths nested in it, /b, /b/a
FsPaths == {root, PB, PBA} \cup {Nested(n) : n \in 1..MaxDepth}

\* what a symbolic link may point at: a relative and an absolute target
LinkTargets == {<<"a">>, <<"/", "a">>}

\* the suffixes mkdtemp may draw: one that can meet a name that is taken,
\* and one that never does
Suffixes == {<<"a">>, <<"c">>}

\* the texts write is called with
Texts == {<<"t">>}

\* the paths ln is called on: the one the links of the model point at
LnSources == {p \in FsPaths : p \in LinkTargets}

\* the prefixes mktemp is called with
Prefixes == {NoPrefix, <<"/", "a">>}

\* the names a temporary directory can get, there or after a rename of the
\* directory it is in
TempPaths ==
  {p \o x : p \in FsPaths, x \in Suffixes}
    \cup {Child(ProcessCwd, UndefinedText \o x) : x \in Suffixes}

\* the paths the model lets entries be at: a call whose outcome would put an
\* entry elsewhere is not made
InUniverse(f) == DOMAIN f \subseteq FsPaths \cup TempPaths

\* the entry a path holds at the start, by the choice made for it; a file
\* holds its own first path as content, so that any two files differ
StartEntry(k, choice) ==
  CASE choice = "file" -> FileEntry(k)
    [] choice = "dir" -> DirEntry
    [] choice = "rel" -> LinkEntry(<<"a">>)
    [] choice = "abs" -> LinkEntry(<<"/", "a">>)

\* the filesystems a run may start from over the paths P: any entries at the
\* paths other than the root, each inside a directory
StartFsOver(P) ==
  UNION {
    {[k \in D \cup {root} |-> IF k = root THEN DirEntry ELSE StartEntry(k, c[k])] :
       c \in {c \in [D -> {"file", "dir", "rel", "abs"}] :
                \A k \in D : \/ normalize(dirname(k)) = root
                              \/ /\ normalize(dirname(k)) \in D
                                 /\ c[normalize(dirname(k))] = "dir"}}
    : D \in SUBSET (P \ {root})}

StartFs == StartFsOver(FsPaths)

FsInit ==
  /\ PathStart
  /\ fs \in StartFs
  /\ ret = Idle
  /\ NoWalk

\* a call returns r: the filesystem is as the call left it and the caller
\* holds the outcome
Returns(op, this, shape, arg, flag, r, again, firstKind, firstErr) ==
  /\ InUniverse(r.fs)
  /\ r.err # "retry"
  /\ fs' = r.fs
  /\ ret' = Returned(op, this, shape, arg, flag, r, fs, again, firstKind, firstErr)

\* this.readlink()
Readlink ==
  /\ ret.op = "idle"
  /\ \E this \in FsPaths, typeError \in BOOLEAN :
       Returns("readlink", this, "", root, typeError,
               readlink(fs, this, typeError), FALSE, "", "")
  /\ UNCHANGED <<pathVars, walkVars>>

\* this.mv({to, force}) / this.mv({into, force})
Mv ==
  /\ ret.op = "idle"
  /\ \E this \in FsPaths \ {root}, shape \in {"to", "into"}, arg \in FsPaths,
        force \in BOOLEAN :
       Returns("mv", this, shape, arg, force, mv(fs, this, shape, arg, force),
               FALSE, "", "")
  /\ UNCHANGED <<pathVars, walkVars>>

\* this.rm({recursive}), on any path, the root among them, and on /b/ with
\* its trailing separator
Rm ==
  /\ ret.op = "idle"
  /\ \E this \in FsPaths \cup {PB \o <<"/">>}, recursive \in BOOLEAN :
       \E r \in rm(fs, this, recursive) :
         Returns("rm", this, "", root, recursive, r, FALSE, "", "")
  /\ UNCHANGED <<pathVars, walkVars>>

\* the same rm call once more, right after it returned
RmAgain ==
  /\ ret.op = "rm"
  /\ ~ret.again
  /\ \E r \in rm(fs, ret.this, ret.flag) :
       Returns("rm", ret.this, "", root, ret.flag, r,
               TRUE, KindAt(ret.pre, ret.this), ret.err)
  /\ UNCHANGED <<pathVars, walkVars>>

\* this.mkdir() / this.mkdir('p')
Mkdir ==
  /\ ret.op = "idle"
  /\ \E this \in FsPaths, opts \in {"p", ""} :
       Returns("mkdir", this, opts, root, opts = "p", mkdir(fs, this, opts), FALSE, "", "")
  /\ UNCHANGED <<pathVars, walkVars>>

\* Path.mktemp({prefix, dir}), while no temporary directory is there
Mktemp ==
  /\ ret.op = "idle"
  /\ DOMAIN fs \subseteq FsPaths
  /\ \E dir \in FsPaths \cup {NoPath}, prefix \in Prefixes, suffix \in Suffixes :
       Returns("mktemp", prefix, "", dir, dir # NoPath,
               mktemp(fs, prefix, dir, suffix), FALSE, "", "")
  /\ UNCHANGED <<pathVars, walkVars>>

\* this.cp({into})
Cp ==
  /\ ret.op = "idle"
  /\ \E this \in FsPaths, into \in FsPaths :
       Returns("cp", this, "into", into, FALSE, cp(fs, this, into), FALSE, "", "")
  /\ UNCHANGED <<pathVars, walkVars>>

\* this.ln('s', {to})
Ln ==
  /\ ret.op = "idle"
  /\ \E this \in LnSources, to \in FsPaths :
       Returns("ln", this, "to", to, FALSE, ln(fs, this, to), FALSE, "", "")
  /\ UNCHANGED <<pathVars, walkVars>>

\* this.write({text, force})
Write ==
  /\ ret.op = "idle"
  /\ \E this \in FsPaths, text \in Texts, force \in BOOLEAN :
       \E r \in write(fs, this, text, force) :
         Returns("write", this, "", root, force, r, FALSE, "", "")
  /\ UNCHANGED <<pathVars, walkVars>>

\* this.touch()
Touch ==
  /\ ret.op = "idle"
  /\ \E this \in FsPaths :
       \E r \in touch(fs, this) :
         Returns("touch", this, "", root, TRUE, r, FALSE, "", "")
  /\ UNCHANGED <<pathVars, walkVars>>

\* this.chmod(mode)
Chmod ==
  /\ ret.op = "idle"
  /\ \E this \in FsPaths :
       Returns("chmod", this, "", root, FALSE, chmod(fs, this), FALSE, "", "")
  /\ UNCHANGED <<pathVars, walkVars>>

\* the caller takes the result and goes on
Settle ==
  /\ ret.op # "idle"
  /\ ret' = Idle
  /\ UNCHANGED <<fs, pathVars, walkVars>>

FsNext ==
  \/ Readlink
  \/ Mv
  \/ Rm
  \/ RmAgain
  \/ Mkdir
  \/ Mktemp
  \/ Cp
  \/ Ln
  \/ Write
  \/ Touch
  \/ Chmod
  \/ Settle

SpecFs == FsInit /\ [][FsNext]_vars

\* ------------------------------------------------------------------------
\* walk() as a state machine over an unchanging filesystem
\* ------------------------------------------------------------------------

\* the paths the walked trees are made of: one level deeper, and /a/b, a
\* second entry for the directory /a
WalkPaths == FsPaths \cup {Nested(MaxDepth + 1), <<"/", "a", "/", "b">>}

\* the names node_fs.promises.opendir(p) will return: the entries of the
\* directory p resolves to
DirNames(f, p) ==
  LET d == Resolve(f, p, TRUE).path
  IN  {basename(k) : k \in {k \in DOMAIN f : k # d /\ normalize(dirname(k)) = d}}

\* the Dirent of the entry called name in the directory p: its d_type
Dirent(f, p, name) ==
  [name |-> name, kind |-> f[Child(Resolve(f, p, TRUE).path, name)].kind]

\* a pop that takes the oldest directory instead of the newest
PopFront(stk) == [dir |-> Head(stk), rest |-> Tail(stk)]

\* stack.pop(): the directory taken, and the stack left
Pop(stk) == [dir |-> stk[Len(stk)], rest |-> SubSeq(stk, 1, Len(stk) - 1)]

\* const path = dir.join(entry.name)
EntryPath(dir, entry) == join(dir, <<entry.name>>)

\* a walk that forgets to push the directories it meets
AfterPushDropped(stk, path, entry) == stk

\* if (entry.isDirectory()) stack.push(path)
AfterPush(stk, path, entry) ==
  IF entry.kind = "dir" THEN Append(stk, path) ELSE stk

WalkInit ==
  /\ PathStart
  /\ fs \in StartFsOver(WalkPaths)
  /\ ret = Idle
  /\ iter = "walk"
  /\ wstart \in WalkPaths
  /\ stack = <<wstart>>
  /\ wdir = root
  /\ handle = {}
  /\ yielded = <<>>
  /\ wpc = "pop"
  /\ open = {}

\* const dir = stack.pop()!  and the call of opendir(dir.string): the
\* generator awaits it and the event loop runs on, the directory taken off
\* the stack and not open yet
WalkPop ==
  /\ wpc = "pop"
  /\ stack # <<>>
  /\ stack' = Pop(stack).rest
  /\ wdir' = Pop(stack).dir
  /\ wpc' = "open"
  /\ UNCHANGED <<iter, wstart, handle, yielded, open, pathVars, fsVars>>

\* the awaited opendir(dir.string) settles: the directory is open, or the
\* call throws because dir is no directory
WalkOpen ==
  /\ wpc = "open"
  /\ IF isDirectory(fs, wdir)
     THEN /\ handle' = DirNames(fs, wdir)
          /\ open' = open \cup {wdir}
          /\ wpc' = "read"
     ELSE /\ wpc' = "failed"
          /\ UNCHANGED <<handle, open>>
  /\ UNCHANGED <<iter, wstart, stack, wdir, yielded, pathVars, fsVars>>

\* the directory returns its next entry, in the order the OS keeps, and
\* walk yields [path, entry]
WalkYield ==
  /\ wpc = "read"
  /\ \E name \in handle :
       LET entry == Dirent(fs, wdir, name)
       IN  /\ yielded' = Append(yielded, [path |-> EntryPath(wdir, entry),
                                          entry |-> entry])
           /\ handle' = handle \ {name}
  /\ wpc' = "yielded"
  /\ UNCHANGED <<iter, wstart, stack, wdir, open, pathVars, fsVars>>

\* the consumer asks for the next entry: walk goes on after the yield
WalkResume ==
  /\ iter = "walk"
  /\ wpc = "yielded"
  /\ stack' = AfterPush(stack, yielded[Len(yielded)].path,
                        yielded[Len(yielded)].entry)
  /\ wpc' = "read"
  /\ UNCHANGED <<iter, wstart, wdir, handle, yielded, open, pathVars, fsVars>>

\* the directory has no more entries: its iterator closes it, the for await
\* loop ends
WalkClose ==
  /\ wpc = "read"
  /\ handle = {}
  /\ open' = open \ {wdir}
  /\ wpc' = "pop"
  /\ UNCHANGED <<iter, wstart, stack, wdir, handle, yielded, pathVars, fsVars>>

\* while (stack.length > 0) ends
WalkReturn ==
  /\ wpc = "pop"
  /\ stack = <<>>
  /\ wpc' = "done"
  /\ UNCHANGED <<iter, wstart, stack, wdir, handle, yielded, open, pathVars, fsVars>>

WalkNext ==
  \/ WalkPop
  \/ WalkOpen
  \/ WalkYield
  \/ WalkResume
  \/ WalkClose
  \/ WalkReturn

SpecWalk == WalkInit /\ [][WalkNext]_vars

\* ------------------------------------------------------------------------
\* ls() and walk() with their consumer: every way an iteration can end
\* ------------------------------------------------------------------------

\* this.ls() or this.walk() is called; ls() is the iteration over the one
\* directory this, with nothing pushed
IterInit ==
  /\ PathStart
  /\ fs \in StartFsOver(WalkPaths)
  /\ ret = Idle
  /\ iter \in {"walk", "ls"}
  /\ wstart \in WalkPaths
  /\ stack = <<wstart>>
  /\ wdir = root
  /\ handle = {}
  /\ yielded = <<>>
  /\ wpc = "pop"
  /\ open = {}

\* the consumer asks ls() for the next entry: the for await loop goes on
LsResume ==
  /\ iter = "ls"
  /\ wpc = "yielded"
  /\ wpc' = "read"
  /\ UNCHANGED <<iter, wstart, stack, wdir, handle, yielded, open>>
  /\ UNCHANGED <<pathVars, fsVars>>

\* the consumer leaves its own loop (break, return or throw): the generator
\* is returned at its yield, the for await loop it stands in returns the
\* directory's iterator, and that closes the directory
IterReturn ==
  /\ wpc = "yielded"
  /\ open' = open \ {wdir}
  /\ wpc' = "returned"
  /\ UNCHANGED <<iter, wstart, stack, wdir, handle, yielded, pathVars, fsVars>>

\* the consumer asks for no further entry and lets go of the iteration: the
\* generator stays at its yield, inside the for await loop
IterDrop ==
  /\ wpc = "yielded"
  /\ wpc' = "dropped"
  /\ UNCHANGED <<iter, wstart, stack, wdir, handle, yielded, open>>
  /\ UNCHANGED <<pathVars, fsVars>>

\* reading the open directory fails: its iterator closes it and the error
\* leaves the for await loop and the generator
IterReadError ==
  /\ wpc = "read"
  /\ open' = open \ {wdir}
  /\ wpc' = "failed"
  /\ UNCHANGED <<iter, wstart, stack, wdir, handle, yielded, pathVars, fsVars>>

\* the garbage collector may reclaim a dropped generator and the directory
\* it holds, at a time of its choosing or never
IterCollect ==
  /\ wpc = "dropped"
  /\ open # {}
  /\ open' = {}
  /\ UNCHANGED <<iter, wstart, stack, wdir, handle, yielded, wpc>>
  /\ UNCHANGED <<pathVars, fsVars>>

IterNext ==
  \/ WalkPop
  \/ WalkOpen
  \/ WalkYield
  \/ WalkClose
  \/ WalkReturn
  \/ IterReadError
  \/ WalkResume
  \/ LsResume
  \/ IterReturn
  \/ IterDrop
  \/ IterCollect

SpecIter == IterInit /\ [][IterNext]_vars

\* ------------------------------------------------------------------------
\* Claims about the path algebra, stated over SpecPath
\* ------------------------------------------------------------------------

\* the invariants of a Path string: starts with the separator, no duplicate
\* separators, no "." segment, no trailing separator unless it is the root
WellFormed(s) ==
  /\ s # <<>>
  /\ s[1] = "/"
  /\ \A i \in 1..(Len(s) - 1) : ~(s[i] = "/" /\ s[i + 1] = "/")
  /\ \A i \in 1..Len(SplitSlash(s)) : SplitSlash(s)[i] # <<".">>
  /\ (s[Len(s)] = "/" => s = <<"/">>)

\* C1: every Path value obtained by construction from an absolute string, by
\* parent() or by join() holds a string that starts with "/", has no
\* duplicate separators, no "." segments and no trailing separator unless it
\* is the root.
C1_PathIsWellFormed == WellFormed(self)

\* C2: for absolute paths target and base, base.join(target.relative({to:
\* base})) is eq to target; stated for a target and a base that themselves
\* meet the Path invariants, so that it covers base = /a, target = /aa.
C2_RelativeRoundTrip ==
  (/\ last.op = "rejoin"
   /\ WellFormed(last.this)
   /\ WellFormed(last.base))
  => eq(last.result, last.this)

\* index of the first truthy component of a join call, 0 when there is none
FirstTruthy(segs) ==
  IF \E i \in 1..Len(segs) : segs[i] # <<>>
  THEN CHOOSE i \in 1..Len(segs) :
         segs[i] # <<>> /\ \A j \in 1..(i - 1) : segs[j] = <<>>
  ELSE 0

\* C3: when a component other than the first truthy one is an absolute path,
\* join returns exactly that absolute path, discarding the receiver and the
\* components before it; stated for the last component of the call.
C3_JoinLaterAbsoluteReplaces ==
  (/\ last.op = "join"
   /\ Len(last.segs) > 0
   /\ FirstTruthy(last.segs) < Len(last.segs)
   /\ ValidInput(last.segs[Len(last.segs)]))
  => last.result = PathOf(last.segs[Len(last.segs)])

\* ------------------------------------------------------------------------
\* Claims about the filesystem operations, stated over SpecFs
\* ------------------------------------------------------------------------

\* the destination of the mv call that returned
RetDst == MvDst(ret.this, ret.shape, ret.arg)

\* the entry p names in f, not following a link in its last component
EntryAt(f, p) == Resolve(f, p, FALSE).path

\* C4: in both call shapes of mv, an entry at the destination and no force
\* make mv fail and leave the filesystem as it was. Stated for a source that
\* exists and a destination that is another entry, and satisfied by any
\* failure, whatever its kind.
C4_MvWithoutForceRefuses ==
  (/\ ret.op = "mv"
   /\ ~ret.flag
   /\ LstatOk(ret.pre, ret.this)
   /\ LstatOk(ret.pre, RetDst)
   /\ EntryAt(ret.pre, RetDst) # EntryAt(ret.pre, ret.this))
  => (ret.err # "" /\ fs = ret.pre)

\* the mv call that returned was forced, from a regular file, onto a
\* destination that existed
ForcedMvOntoExisting ==
  /\ ret.op = "mv"
  /\ ret.flag
  /\ KindAt(ret.pre, ret.this) = "file"
  /\ LstatOk(ret.pre, RetDst)

\* the mv call that returned succeeded, the destination now reads as the
\* source did before, and nothing is at the source path
MovedContent ==
  /\ ret.err = ""
  /\ ret.value = RetDst
  /\ StatOk(fs, RetDst)
  /\ StatKind(fs, RetDst) = "file"
  /\ ReadFile(fs, RetDst) = ReadFile(ret.pre, ret.this)
  /\ ~LstatOk(fs, ret.this)

\* C5 as claimed: forced mv of an existing file onto any existing
\* destination, the source's own path included, succeeds and moves the
\* content.
C5_ForcedMvOntoAnyDestination == ForcedMvOntoExisting => MovedContent

\* the destination of the mv call that returned was a regular file or a
\* symbolic link, it was not the source itself, and neither path goes
\* through it: with the destination's entry taken away the source path still
\* names the file and the destination path a name in a directory
MvOntoFileOrLinkAside ==
  /\ KindAt(ret.pre, RetDst) \in {"file", "link"}
  /\ EntryAt(ret.pre, RetDst) # EntryAt(ret.pre, ret.this)
  /\ KindAt(Without(ret.pre, EntryAt(ret.pre, RetDst)), ret.this) = "file"
  /\ Resolve(Without(ret.pre, EntryAt(ret.pre, RetDst)), RetDst, FALSE).err = ""

\* C5 amended: the same for a destination that is a regular file other than
\* the source itself, or a symbolic link, dangling or not, that neither the
\* source path nor the destination path goes through.
C5_ForcedMvOntoFileOrLink ==
  (ForcedMvOntoExisting /\ MvOntoFileOrLinkAside) => MovedContent

\* a forced mv onto a symbolic link to a directory has moved the content to
\* where the link was and left the directory in its place
C5_Witness ==
  /\ ForcedMvOntoExisting
  /\ MvOntoFileOrLinkAside
  /\ MovedContent
  /\ KindAt(ret.pre, RetDst) = "link"
  /\ StatOk(ret.pre, RetDst)
  /\ StatKind(ret.pre, RetDst) = "dir"
  /\ KindAt(fs, Resolve(ret.pre, RetDst, TRUE).path) = "dir"

\* C6: readlink on an entry that is not a symbolic link returns the receiver
\* and raises nothing; on a path with no entry it raises.
C6_ReadlinkTellsAbsentFromPlain ==
  /\ (ret.op = "readlink" /\ KindAt(ret.pre, ret.this) \in {"file", "dir"})
       => (ret.err = "" /\ ret.value = ret.this)
  /\ (ret.op = "readlink" /\ KindAt(ret.pre, ret.this) = "none")
       => ret.err # ""

\* rm on a path with no entry does not fail and changes nothing
RmOfNothingIsNoOp ==
  (ret.op = "rm" /\ KindAt(ret.pre, ret.this) = "none")
  => (ret.err = "" /\ fs = ret.pre)

\* C7 as claimed: rm of nothing is a no-op, and the second of two rm calls
\* in a row on a path that existed never fails, for a file and for a
\* directory with or without the recursive option.
C7_SecondRmNeverFails ==
  /\ RmOfNothingIsNoOp
  /\ (ret.op = "rm" /\ ret.again /\ ret.firstKind # "none") => ret.err = ""

\* rm refuses the path of the call that returned: it is a directory and the
\* recursive option is not set, or it is the root directory, or it ends in a
\* separator behind the name of a symbolic link to a directory
RmRefuses ==
  /\ KindAt(ret.pre, ret.this) = "dir"
  /\ \/ ~ret.flag
     \/ ret.this = root
     \/ /\ TrailingSlash(ret.this)
        /\ ret.pre[Lookup(ret.pre, ret.this).path].kind = "link"

\* C7 amended: the second call fails only when the first one failed. A call
\* fails, and removes nothing, exactly when rm refuses the path: a directory
\* without the recursive option, the root directory, or a path that ends in
\* a separator and names a symbolic link to a directory.
C7_SecondRmFailsOnlyAfterFirst ==
  /\ RmOfNothingIsNoOp
  /\ (ret.op = "rm" /\ ret.again /\ ret.firstErr = "") => ret.err = ""
  /\ (ret.op = "rm" /\ ret.err # "") => (RmRefuses /\ fs = ret.pre)
  /\ (ret.op = "rm" /\ RmRefuses) => ret.err # ""

\* a second rm returned without failing after the first removed a directory
\* with entries in it
C7_Witness ==
  /\ ret.op = "rm"
  /\ ret.again
  /\ ret.firstKind = "dir"
  /\ ret.firstErr = ""
  /\ ret.flag
  /\ ret.err = ""
  /\ ~LstatOk(fs, ret.this)

\* C9: mktemp with a parent directory dir leaves dir a directory and returns
\* a directory it has just made inside dir: result.parent() equals dir.
C9_MktempInsideDir ==
  (/\ ret.op = "mktemp"
   /\ ret.arg # NoPath
   /\ ret.err = "")
  => /\ isDirectory(fs, ret.arg)
     /\ ~LstatOk(ret.pre, ret.value)
     /\ KindAt(fs, ret.value) = "dir"
     /\ eq(parent(ret.value), ret.arg)

\* ------------------------------------------------------------------------
\* Claims about walk(), stated over SpecWalk
\* ------------------------------------------------------------------------

\* the entries below the directory the walk starts at
Descendants == {k \in DOMAIN fs : Under(Resolve(fs, wstart, TRUE).path, k)}

Yields == 1..Len(yielded)

\* C8: run to exhaustion over an unchanging tree, walk yields exactly one
\* entry for each descendant of the start directory, each once, and never
\* the start directory itself.
C8_WalkYieldsEachDescendantOnce ==
  wpc = "done" =>
    /\ Len(yielded) = Cardinality(Descendants)
    /\ {EntryAt(fs, yielded[i].path) : i \in Yields} = Descendants
    /\ \A i, j \in Yields : i # j => yielded[i].path # yielded[j].path
    /\ \A i \in Yields : yielded[i].path # wstart

C8_Witness ==
  /\ wpc = "done"
  /\ Len(yielded) >= 4
  /\ \E i, j, k \in Yields :
       /\ yielded[i].entry.kind = "dir"
       /\ yielded[j].entry.kind = "file"
       /\ parent(yielded[j].path) = yielded[i].path
       /\ yielded[k].entry.kind = "file"
       /\ parent(yielded[k].path) = wstart

\* C10 as claimed: depth-first pre-order, the entries of a directory's
\* subtree come right after the directory, before any entry outside it.
C10_WalkIsPreOrder ==
  \A i, j, l \in Yields :
    (/\ i < j
     /\ j < l
     /\ yielded[i].entry.kind = "dir"
     /\ Under(yielded[i].path, yielded[l].path))
    => Under(yielded[i].path, yielded[j].path)

\* C10 amended: every entry comes after the entry of the directory it is in,
\* the entries of one directory come one after the other, and of two
\* directories waiting to be read the one yielded last is read first: when
\* e is yielded after d and before any entry of d, the entries of e come
\* before the entries of d.
C10_WalkReadsLastYieldedFirst ==
  /\ \A j \in Yields :
       \/ parent(yielded[j].path) = wstart
       \/ \E i \in 1..(j - 1) :
            /\ yielded[i].path = parent(yielded[j].path)
            /\ yielded[i].entry.kind = "dir"
  /\ \A i, j, l \in Yields :
       (i < j /\ j < l /\ parent(yielded[i].path) = parent(yielded[l].path))
       => parent(yielded[j].path) = parent(yielded[i].path)
  /\ \A d, e \in Yields :
       (/\ d < e
        /\ \A x \in Yields : parent(yielded[x].path) = yielded[d].path => e < x)
       => \A c, b \in Yields :
            (/\ parent(yielded[c].path) = yielded[d].path
             /\ parent(yielded[b].path) = yielded[e].path)
            => b < c

\* a directory's entries are yielded after a later sibling of the directory
\* and after that sibling's entries, and a directory with two entries, one
\* of them a directory with an entry, has been read
C10_Witness ==
  /\ wpc = "done"
  /\ \E d, e, c, b \in Yields :
       /\ d < e
       /\ e < b
       /\ b < c
       /\ yielded[d].entry.kind = "dir"
       /\ yielded[e].entry.kind = "dir"
       /\ parent(yielded[c].path) = yielded[d].path
       /\ parent(yielded[b].path) = yielded[e].path
       /\ parent(yielded[e].path) = parent(yielded[d].path)
  /\ \E d, e, c, b \in Yields :
       /\ d < e
       /\ e < c
       /\ c < b
       /\ parent(yielded[e].path) = yielded[d].path
       /\ parent(yielded[c].path) = yielded[d].path
       /\ parent(yielded[b].path) = yielded[e].path

\* ------------------------------------------------------------------------
\* Claims about the directory handles of ls() and walk(), over SpecIter
\* ------------------------------------------------------------------------

\* the iteration has ended: exhausted, failed, returned by the consumer, or
\* dropped by a consumer that asks for nothing more
IterEnded == wpc \in {"done", "failed", "returned", "dropped"}

\* C11: every directory handle ls or walk opens is released on every way the
\* iteration can end (exhaustion, the consumer abandoning it, an error while
\* reading): at most the directory being read is open, and no handle is
\* open once the iteration has ended.
C11_HandlesAreReleased ==
  /\ Cardinality(open) <= 1
  /\ (IterEnded => open = {})

\* ------------------------------------------------------------------------
\* Claims about relative(), stated over SpecPath
\* ------------------------------------------------------------------------

\* relative() stands at an iteration of its loop that it can only repeat: the
\* loop condition holds and the two shifts leave both lists as they are
RelativeSpins ==
  /\ pc = "loop"
  /\ First(newPathComps) = First(newBaseComps)
  /\ Shift(newPathComps) = newPathComps
  /\ Shift(newBaseComps) = newBaseComps

\* C12: relative terminates and returns a string for every pair of Path
\* values that can be constructed, also when both component lists are the
\* same and the loop strips them down to empty (this = /a, base = /a/): the
\* loop never comes to an iteration that it can only repeat for ever.
C12_RelativeTerminates == ~RelativeSpins

====
